---- MODULE Spec2Model ----
(***************************************************************************)
(* Gesture Racer 3D: the GameComponent of                                  *)
(* src/src/components/game/game.component.ts as a state machine.           *)
(*                                                                         *)
(* The component is single-threaded.  Every handler (a UI event, one       *)
(* display frame running the pending requestAnimationFrame callbacks, a    *)
(* promise settling) runs to completion, so each is one action.  Handlers  *)
(* are written as operators from a state record to a state record, so     *)
(* that a handler calling another (startLoops -> animate -> crash ->       *)
(* stopAllLoops) is the composition the code performs.                     *)
(*                                                                         *)
(* Numbers are fixed point.  Floats of the code are integers in the        *)
(* following units, quotients truncated toward zero.  TLC's integers are   *)
(* 32 bits wide, so long products are divided in stages.                   *)
(*   time      1/600 s    (one 60 Hz frame = 10)                           *)
(*   speed     1/12000    (speed 1.0 = 60 kph = 12000)                     *)
(*   steer     1/1000                                                      *)
(*   landmark  1/1000 of the normalised image                              *)
(*   x         1/100 road unit,  z  1/10 road unit                         *)
(*   health    1/10 point (100 = 1000)                                     *)
(*   angle     1/1000 rad, virtualSteerAngle 1/1000 degree                 *)
(***************************************************************************)
EXTENDS Integers, Sequences, FiniteSets, TLC

\* ------------------------------------------------------------------ units
TimeUnit == 6 * 100             \* time units per second
FrameDt == TimeUnit \div 60     \* one 60 Hz display frame
SpeedUnit == 12 * 1000          \* speed units per 1.0 of this.speed
SteerUnit == 10 * 100           \* steer units per 1.0
XUnit == 10 * 10                \* x units per road unit
ZUnit == 2 * 5                  \* z units per road unit
HealthUnit == 2 * 5             \* health units per health point

\* ------------------------------------------------------- program constants
CV_THROTTLE_MS == 32
SIDE_BARRIER_X == 10
MAX_LEADERBOARD_ENTRIES == 20
\* LERP_FACTOR = 0.1 as a divisor
LERP_DIV == 10
\* health lost by a non-fatal crash
CRASH_DAMAGE == 34
\* score points per difficulty step
DIFFICULTY_STEP == 2000

\* ------------------------------------------------------------ model bounds
\* Pool capacities (MAX_OBSTACLES = 40 and MAX_COINS = 60 in the code),
\* scaled down so that exhaustion is reached.
MAX_OBSTACLES == 2
MAX_COINS == 6
\* Simulation ticks and perception polls explored per run.
MaxTicks == 2
MaxPolls == 2
\* Simulation ticks explored per run of the race alone.
MaxRaceTicks == 2
\* Longest time (in frames) the clock is followed between two reads before
\* the frame counts as stalled.
MaxQuietFrames == 2
\* Simulation ticks of a drive in a straight line: one second of frames.
MaxDriveTicks == 60
\* Simulation steps of a cruise at top speed.
MaxCruiseTicks == 12
\* Requests the page sends through the service worker per run, and how many
\* of them it keeps in progress at a time.
MaxRequests == 3
MaxJobs == 2

\* CV_THROTTLE_MS in time units, rounded up to the next instant the model has
ThrottleDt == (CV_THROTTLE_MS * TimeUnit + 999) \div 1000

\* A stalled frame (hidden tab, blocked main thread): 20 s.
StallDt == 20 * TimeUnit

\* ---------------------------------------------------------------- helpers
Abs(n) == IF n < 0 THEN -n ELSE n
Sign(n) == IF n < 0 THEN -1 ELSE IF n > 0 THEN 1 ELSE 0
Min(a, b) == IF a < b THEN a ELSE b
Max(a, b) == IF a > b THEN a ELSE b
\* n / d truncated toward zero (d > 0)
Trunc(n, d) == Sign(n) * (Abs(n) \div d)
\* n * m / d for m >= 0, d > 0, the whole multiples of d taken out of m first
Scale(n, m, d) == n * (m \div d) + Trunc(n * (m % d), d)

RECURSIVE ISqrtIn(_, _, _)
ISqrtIn(n, lo, hi) ==
  IF lo >= hi THEN lo
  ELSE LET mid == (lo + hi + 1) \div 2
       IN IF mid * mid <= n THEN ISqrtIn(n, mid, hi) ELSE ISqrtIn(n, lo, mid - 1)
\* floor of the square root
ISqrt(n) == ISqrtIn(n, 0, 4096)

\* Math.hypot on landmark coordinates
Hypot(dx, dy) == ISqrt(dx * dx + dy * dy)

\* atan(p / q) for 0 <= p <= q, q > 0, in 1/1000 rad
\* (r * (pi/4 + 0.273 * (1 - r)), error below 0.004 rad)
AtanUnit(p, q) == (p * (785 * q + 273 * (q - p))) \div (q * q)
HalfPi == 3142 \div 2
\* atan of |dy| / |dx| in the first quadrant
AtanQuadrant(ay, ax) ==
  IF ay = 0 THEN 0
  ELSE IF ax = 0 THEN HalfPi
  ELSE IF ay <= ax THEN AtanUnit(ay, ax)
  ELSE HalfPi - AtanUnit(ax, ay)
\* Math.atan2(dy, dx) in 1/1000 rad
Atan2(dy, dx) ==
  LET a == AtanQuadrant(Abs(dy), Abs(dx))
  IN IF dx >= 0 THEN Sign(dy) * a
     ELSE IF dy >= 0 THEN 2 * HalfPi - a
     ELSE -(2 * HalfPi - a)

\* sign(x) * |x|^1.5 on steer units
PowerCurve(x) == Sign(x) * ((Abs(x) * ISqrt(Abs(x) * SteerUnit)) \div SteerUnit)

\* ------------------------------------------------------------------ state
VARIABLES
  gameState,          \* 'IDLE' | 'NAME_INPUT' | 'LOADING' | 'RUNNING' | 'SHOP' | 'GAME_OVER'
  isPaused,
  loadingMessage,     \* "BOOT" | "FINALIZING" | "CONNECTING" | "ERROR"
  destroyed,          \* ngOnDestroy has run
  audioCtx,           \* the AudioContext exists
  aiReady,
  cvLoadingPromise,   \* "null" | "pending" | "resolved"
  handLandmarker,     \* the detector exists
  webcamRunning,
  startupPc,          \* where initiateRaceSequence is suspended: "none" | "ai" | "camera"
  animId,             \* "null" | "live" (names a pending callback) | "stale"
  cvId,
  animQueue,          \* pending requestAnimationFrame callbacks that run animate
  cvQueue,            \* pending requestAnimationFrame callbacks that run predictWebcam
  clockRunning,       \* THREE.Clock.running
  clockAutoStart,     \* THREE.Clock.autoStart
  sinceOld,           \* now - clock.oldTime, saturating at a stalled frame
  sinceCV,            \* now - lastCVTime, saturating at the throttle interval
  sincePoll,          \* time since the last detectForVideo call, saturating likewise
  score,
  speed,
  carX,
  carZ,               \* carZ modulo the 800-unit coin period
  targetSteer,
  currentSteer,
  health,
  difficultyLevel,
  currentDriveState,  \* 'NEUTRAL' | 'GAS' | 'BRAKING'
  isTwoHandMode,
  virtualSteerAngle,
  obstaclePool,
  coinPool,
  coins,
  leaderboard,        \* scores, best first
  ticks,              \* simulation ticks run so far (bounded by MaxTicks)
  polls,              \* gesture interpretations run so far (bounded by MaxPolls)
  last,               \* what the last handler did (observation only)
  worker              \* the service worker: its cache, its requests in progress

vars == << gameState, isPaused, loadingMessage, destroyed, audioCtx, aiReady,
           cvLoadingPromise, handLandmarker, webcamRunning, startupPc, animId, cvId,
           animQueue, cvQueue, clockRunning, clockAutoStart, sinceOld, sinceCV,
           sincePoll, score, speed, carX, carZ, targetSteer, currentSteer, health,
           difficultyLevel, currentDriveState, isTwoHandMode, virtualSteerAngle,
           obstaclePool, coinPool, coins, leaderboard, ticks, polls, last,
           worker >>

\* The current state as a record, and the assignment of a record to the state.
Cur ==
  [ gameState |-> gameState, isPaused |-> isPaused, loadingMessage |-> loadingMessage,
    destroyed |-> destroyed, audioCtx |-> audioCtx, aiReady |-> aiReady,
    cvLoadingPromise |-> cvLoadingPromise, handLandmarker |-> handLandmarker,
    webcamRunning |-> webcamRunning, startupPc |-> startupPc, animId |-> animId,
    cvId |-> cvId, animQueue |-> animQueue, cvQueue |-> cvQueue,
    clockRunning |-> clockRunning, clockAutoStart |-> clockAutoStart,
    sinceOld |-> sinceOld, sinceCV |-> sinceCV, sincePoll |-> sincePoll,
    score |-> score, speed |-> speed,
    carX |-> carX, carZ |-> carZ, targetSteer |-> targetSteer,
    currentSteer |-> currentSteer, health |-> health,
    difficultyLevel |-> difficultyLevel, currentDriveState |-> currentDriveState,
    isTwoHandMode |-> isTwoHandMode, virtualSteerAngle |-> virtualSteerAngle,
    obstaclePool |-> obstaclePool, coinPool |-> coinPool, coins |-> coins,
    leaderboard |-> leaderboard, ticks |-> ticks, polls |-> polls, last |-> last,
    worker |-> worker ]

Set(s) ==
  /\ gameState' = s.gameState
  /\ isPaused' = s.isPaused
  /\ loadingMessage' = s.loadingMessage
  /\ destroyed' = s.destroyed
  /\ audioCtx' = s.audioCtx
  /\ aiReady' = s.aiReady
  /\ cvLoadingPromise' = s.cvLoadingPromise
  /\ handLandmarker' = s.handLandmarker
  /\ webcamRunning' = s.webcamRunning
  /\ startupPc' = s.startupPc
  /\ animId' = s.animId
  /\ cvId' = s.cvId
  /\ animQueue' = s.animQueue
  /\ cvQueue' = s.cvQueue
  /\ clockRunning' = s.clockRunning
  /\ clockAutoStart' = s.clockAutoStart
  /\ sinceOld' = s.sinceOld
  /\ sinceCV' = s.sinceCV
  /\ sincePoll' = s.sincePoll
  /\ score' = s.score
  /\ speed' = s.speed
  /\ carX' = s.carX
  /\ carZ' = s.carZ
  /\ targetSteer' = s.targetSteer
  /\ currentSteer' = s.currentSteer
  /\ health' = s.health
  /\ difficultyLevel' = s.difficultyLevel
  /\ currentDriveState' = s.currentDriveState
  /\ isTwoHandMode' = s.isTwoHandMode
  /\ virtualSteerAngle' = s.virtualSteerAngle
  /\ obstaclePool' = s.obstaclePool
  /\ coinPool' = s.coinPool
  /\ coins' = s.coins
  /\ leaderboard' = s.leaderboard
  /\ ticks' = s.ticks
  /\ polls' = s.polls
  /\ last' = s.last
  /\ worker' = s.worker

\* What a handler reports of itself.
\*   animCalls/cvCalls   invocations of animate / predictWebcam
\*   animArmed/cvArmed   requestAnimationFrame calls made by them
\*   simTicks            invocations of animate that ran a simulation step
\*   cvGate              what the last predictWebcam did
\*   hands               the observation handed to processHands
\*   threw               an exception left predictWebcam
\*   crashes             calls of crash(); finals: calls that ran the fatal branch
\*   hits                obstacle slots whose collision test fired
\*   dt                  the dt read by the last simulation step (-1: none)
\*   ctl                 the control signal as predictWebcam found it
\*   spawns, skips       obstacle spawn attempts, and those that found no free slot
\*   pools               the pools as updateEntities found them (before), as
\*                       its spawnObstacleFromPool call left them (mid) and as
\*                       its spawnCoinPattern call left them (after), when it
\*                       made one of the calls
\*   coinPattern         spawnCoinPattern was called
\*   was                 difficultyLevel, score and speed as the handler found
\*                       them
\*   resets              calls of resetGame
\*   cancelled           pending callbacks that enterShop cancelled
\*   tickSpeed           the speed the last simulation step moved the car with
\*   awaited             a start-up was suspended on the promise that settled
\*   elapsed             time that passed since the previous handler ended
\*   pausedFor           when the previous handler resumed a paused race: the
\*                       time that passed before it (-1 otherwise)
\*   pollGap             time since the previous detectForVideo call at this one
\*                       (-1: no call)
NoHands == << >>
NoControl == << >>
NoPools == << >>
Quiet(op) ==
  [ op |-> op, animCalls |-> 0, cvCalls |-> 0, animArmed |-> 0, cvArmed |-> 0,
    simTicks |-> 0, cvGate |-> "none", hands |-> NoHands, threw |-> FALSE,
    crashes |-> 0, finals |-> 0, hits |-> << >>, dt |-> -1, ctl |-> NoControl,
    spawns |-> 0, skips |-> 0, awaited |-> FALSE, elapsed |-> 0,
    pausedFor |-> -1, pollGap |-> -1, pools |-> NoPools, coinPattern |-> FALSE,
    was |-> [ level |-> 0, score |-> 0, speed |-> 0, board |-> << >> ],
    cancelled |-> 0,
    posted |-> << >>, resets |-> 0,
    tickSpeed |-> 0 ]
\* ControlSignal
Control(s) ==
  << s.targetSteer, s.currentDriveState, s.isTwoHandMode, s.virtualSteerAngle >>
Begin(s, op) ==
  [s EXCEPT !.last = [Quiet(op) EXCEPT
                        !.pausedFor = IF s.last.op = "togglePause" /\ ~s.isPaused
                                      THEN s.last.elapsed ELSE -1,
                        !.was = [ level |-> s.difficultyLevel, score |-> s.score,
                                  speed |-> s.speed, board |-> s.leaderboard ]]]

\* --------------------------------------------------- requestAnimationFrame
\* this.animId = requestAnimationFrame(() => this.animate())
RequestAnim(s) ==
  [s EXCEPT !.animQueue = @ + 1, !.animId = "live",
            !.last.animArmed = @ + 1]
\* this.cvId = requestAnimationFrame(() => this.predictWebcam())
RequestCv(s) ==
  [s EXCEPT !.cvQueue = @ + 1, !.cvId = "live",
            !.last.cvArmed = @ + 1]

\* A variant of stopAllLoops that forgets the ids without cancelling.
stopAllLoopsForgetting(s) == [s EXCEPT !.animId = "null", !.cvId = "null"]

stopAllLoops(s) ==
  LET a == IF s.animId = "null" THEN s
           ELSE [s EXCEPT !.animQueue = IF s.animId = "live" THEN @ - 1 ELSE @,
                          !.animId = "null"]
  IN IF a.cvId = "null" THEN a
     ELSE [a EXCEPT !.cvQueue = IF a.cvId = "live" THEN @ - 1 ELSE @,
                    !.cvId = "null"]

\* The browser takes one pending callback out of its map to run it.
TakeAnim(s) ==
  IF s.animId = "live" /\ s.animQueue = 1
  THEN [s EXCEPT !.animQueue = 0, !.animId = "stale"]
  ELSE [s EXCEPT !.animQueue = @ - 1]
TakeCv(s) ==
  IF s.cvId = "live" /\ s.cvQueue = 1
  THEN [s EXCEPT !.cvQueue = 0, !.cvId = "stale"]
  ELSE [s EXCEPT !.cvQueue = @ - 1]

\* ------------------------------------------------------------- THREE.Clock
\* A variant of ClockStart that keeps oldTime.
ClockStartKeeping(s) == [s EXCEPT !.clockRunning = TRUE]

ClockStart(s) == [s EXCEPT !.sinceOld = 0, !.clockRunning = TRUE]
\* the value getDelta() returns
ClockDelta(s) ==
  IF s.clockAutoStart /\ ~s.clockRunning THEN 0
  ELSE IF s.clockRunning THEN s.sinceOld
  ELSE 0
\* the clock after getDelta()
ClockRead(s) ==
  IF s.clockAutoStart /\ ~s.clockRunning THEN ClockStart(s)
  ELSE IF s.clockRunning THEN [s EXCEPT !.sinceOld = 0]
  ELSE s
ClockStop(s) ==
  [ClockRead(s) EXCEPT !.clockRunning = FALSE, !.clockAutoStart = FALSE]

\* Time d passes.
Elapsed(s, d) ==
  [s EXCEPT !.sinceOld = Min(@ + d, StallDt),
            !.sinceCV = Min(@ + d, ThrottleDt),
            !.sincePoll = Min(@ + d, ThrottleDt),
            !.last.elapsed = d]

\* ------------------------------------------------------------- leaderboard
RECURSIVE InsertDesc(_, _)
\* where a stable descending sort leaves a score appended to a sorted list
InsertDesc(lb, sc) ==
  IF lb = << >> THEN << sc >>
  ELSE IF Head(lb) >= sc THEN << Head(lb) >> \o InsertDesc(Tail(lb), sc)
  ELSE << sc >> \o lb

\* A variant of updateLeaderboard that cuts the list before it sorts it.
updateLeaderboardCutFirst(s, finalScore) ==
  LET a == [s EXCEPT !.last.posted = Append(@, finalScore)]
  IN IF finalScore = 0 THEN a
     ELSE LET current == Append(s.leaderboard, finalScore)
              trimmed == SubSeq(current, 1, Min(Len(current), MAX_LEADERBOARD_ENTRIES))
          IN [a EXCEPT !.leaderboard =
                IF Len(trimmed) = Len(current)
                THEN InsertDesc(s.leaderboard, finalScore) ELSE trimmed]

updateLeaderboard(s, finalScore) ==
  LET a == [s EXCEPT !.last.posted = Append(@, finalScore)]
  IN IF finalScore = 0 THEN a
     ELSE LET current == InsertDesc(s.leaderboard, finalScore)
          IN [a EXCEPT !.leaderboard =
                SubSeq(current, 1, Min(Len(current), MAX_LEADERBOARD_ENTRIES))]

\* ------------------------------------------------------------------- crash
\* crash() were it to end the race only below zero health
crashBelowZero(s, fatal) ==
  LET a == [s EXCEPT !.health = IF fatal THEN 0
                                ELSE Max(0, @ - CRASH_DAMAGE * HealthUnit),
                     !.speed = @ \div 5,
                     !.currentSteer = 0,
                     !.targetSteer = 0,
                     !.last.crashes = @ + 1]
  IN IF a.health < 0
     THEN LET b == stopAllLoops(a)
              c == [b EXCEPT !.gameState = "GAME_OVER", !.last.finals = @ + 1]
          IN updateLeaderboard(c, c.score)
     ELSE a

crash(s, fatal) ==
  LET a == [s EXCEPT !.health = IF fatal THEN 0
                                ELSE Max(0, @ - CRASH_DAMAGE * HealthUnit),
                     !.speed = @ \div 5,
                     !.currentSteer = 0,
                     !.targetSteer = 0,
                     !.last.crashes = @ + 1]
  IN IF a.health <= 0
     THEN LET b == stopAllLoops(a)
              c == [b EXCEPT !.gameState = "GAME_OVER", !.last.finals = @ + 1]
          IN updateLeaderboard(c, c.score)
     ELSE a

\* ------------------------------------------------------------------- pools
initObstacle ==
  [ active |-> FALSE, type |-> "NONE", x |-> 0, z |-> 0, laneChangeTimer |-> 0,
    speedOffset |-> 0, targetX |-> 0, width |-> 0 ]
initCoin == [ active |-> FALSE, x |-> 0, z |-> 0 ]
initObstaclePool == [i \in 1..MAX_OBSTACLES |-> initObstacle]
initCoinPool == [i \in 1..MAX_COINS |-> initCoin]

resetPools(s) ==
  [s EXCEPT !.obstaclePool = [i \in DOMAIN s.obstaclePool |->
                                 [s.obstaclePool[i] EXCEPT !.active = FALSE]],
            !.coinPool = [i \in DOMAIN s.coinPool |->
                             [s.coinPool[i] EXCEPT !.active = FALSE]]]

\* pool.find(o => !o.active): the first free slot, 0 when there is none
FirstFree(pool) ==
  IF \E i \in DOMAIN pool : ~pool[i].active
  THEN CHOOSE i \in DOMAIN pool :
         /\ ~pool[i].active
         /\ \A j \in DOMAIN pool : j < i => pool[j].active
  ELSE 0

ActiveCount(pool) == Cardinality({i \in DOMAIN pool : pool[i].active})

\* width of each kind, in x units
KindWidth(type) == IF type = "WALL" THEN (5 * XUnit) \div 2 ELSE (3 * XUnit) \div 2

\* spawnObstacleFromPool() were it to push a new slot when none is free
spawnObstacleGrowing(s, r) ==
  LET o == [ active |-> TRUE, type |-> r.type, x |-> r.lane * XUnit,
             z |-> r.zPos * ZUnit, laneChangeTimer |-> r.timer,
             speedOffset |-> r.speedOffset, targetX |-> r.lane * XUnit,
             width |-> KindWidth(r.type) ]
      i == FirstFree(s.obstaclePool)
  IN IF i = 0
     THEN [s EXCEPT !.last.spawns = @ + 1, !.obstaclePool = Append(@, o)]
     ELSE [s EXCEPT !.last.spawns = @ + 1, !.obstaclePool[i] = o]

\* spawnObstacleFromPool() were it to reuse the first slot when none is free
spawnObstacleEvicting(s, r) ==
  LET o == [ active |-> TRUE, type |-> r.type, x |-> r.lane * XUnit,
             z |-> r.zPos * ZUnit, laneChangeTimer |-> r.timer,
             speedOffset |-> r.speedOffset, targetX |-> r.lane * XUnit,
             width |-> KindWidth(r.type) ]
      i == FirstFree(s.obstaclePool)
  IN IF i = 0
     THEN [s EXCEPT !.last.spawns = @ + 1, !.last.skips = @ + 1,
                    !.obstaclePool[1] = o]
     ELSE [s EXCEPT !.last.spawns = @ + 1, !.obstaclePool[i] = o]

\* r: the Math.random() draws of this call
spawnObstacleFromPool(s, r) ==
  LET i == FirstFree(s.obstaclePool)
  IN IF i = 0 THEN [s EXCEPT !.last.spawns = @ + 1, !.last.skips = @ + 1]
     ELSE [s EXCEPT !.last.spawns = @ + 1, !.obstaclePool[i] =
             [ active |-> TRUE, type |-> r.type, x |-> r.lane * XUnit,
               z |-> r.zPos * ZUnit, laneChangeTimer |-> r.timer,
               speedOffset |-> r.speedOffset, targetX |-> r.lane * XUnit,
               width |-> KindWidth(r.type) ]]

\* Math.sin(i) * 2 for i = 0..4, in x units
ZigZagOffset(i) ==
  IF i = 1 THEN 168 ELSE IF i = 2 THEN 182 ELSE IF i = 3 THEN 28
  ELSE IF i = 4 THEN -151 ELSE 0

RECURSIVE CoinLoop(_, _, _, _)
CoinLoop(pool, i, lane, isZigZag) ==
  IF i > 4 THEN pool
  ELSE LET k == FirstFree(pool)
       IN IF k = 0 THEN CoinLoop(pool, i + 1, lane, isZigZag)
          ELSE CoinLoop(
                 [pool EXCEPT ![k] =
                    [ active |-> TRUE,
                      x |-> lane * XUnit + (IF isZigZag THEN ZigZagOffset(i) ELSE 0),
                      z |-> (-400 - i * 15) * ZUnit ]],
                 i + 1, lane, isZigZag)

spawnCoinPattern(s, r) ==
  LET isZigZag == s.difficultyLevel > 3 /\ r.zigzag
  IN [s EXCEPT !.coinPool = CoinLoop(@, 0, r.coinLane, isZigZag)]

\* ---------------------------------------------------------- updateEntities
\* distance covered in z units by (speed + base road units/s) over dt
ZAdvance(sp, base, dt) ==
  ((sp + (SpeedUnit \div 40) * base) * dt) \div ((SpeedUnit \div 40) * (TimeUnit \div ZUnit))

\* The obstacle step were a hit to leave the obstacle active.
ObstacleStepKeeping(s, i, dt, diff5, r) ==
  LET o == s.obstaclePool[i]
  IN IF ~o.active THEN s
     ELSE
       LET traffic == o.type = "TRAFFIC"
           base == IF traffic THEN 20 + o.speedOffset ELSE 0
           timer1 == o.laneChangeTimer - dt
           retarget == traffic /\ timer1 <= 0
           targetX == IF retarget THEN r.newLane * XUnit ELSE o.targetX
           timer2 == IF retarget THEN (r.newTimer * 10) \div diff5
                     ELSE IF traffic THEN timer1 ELSE o.laneChangeTimer
           x == IF traffic THEN o.x + Scale(targetX - o.x, 3 * dt, TimeUnit) ELSE o.x
           z == o.z + ZAdvance(s.speed, base, dt)
           moved == [o EXCEPT !.x = x, !.z = z, !.targetX = targetX,
                              !.laneChangeTimer = timer2]
           hitDistX == IF o.width = 0 THEN 2 * XUnit ELSE o.width
           hit == Abs(z) < (5 * ZUnit) \div 2 /\ Abs(x - s.carX) < hitDistX
           a == [s EXCEPT !.obstaclePool[i] = moved]
           b == IF hit THEN crash([a EXCEPT !.last.hits = Append(@, i)], FALSE) ELSE a
       IN IF z > 50 * ZUnit THEN [b EXCEPT !.obstaclePool[i].active = FALSE] ELSE b

\* One obstacle of the forEach: s is the component as the previous ones left it.
ObstacleStep(s, i, dt, diff5, r) ==
  LET o == s.obstaclePool[i]
  IN IF ~o.active THEN s
     ELSE
       LET traffic == o.type = "TRAFFIC"
           base == IF traffic THEN 20 + o.speedOffset ELSE 0
           timer1 == o.laneChangeTimer - dt
           retarget == traffic /\ timer1 <= 0
           targetX == IF retarget THEN r.newLane * XUnit ELSE o.targetX
           timer2 == IF retarget THEN (r.newTimer * 10) \div diff5
                     ELSE IF traffic THEN timer1 ELSE o.laneChangeTimer
           x == IF traffic THEN o.x + Scale(targetX - o.x, 3 * dt, TimeUnit) ELSE o.x
           z == o.z + ZAdvance(s.speed, base, dt)
           moved == [o EXCEPT !.x = x, !.z = z, !.targetX = targetX,
                              !.laneChangeTimer = timer2]
           hitDistX == IF o.width = 0 THEN 2 * XUnit ELSE o.width
           hit == Abs(z) < (5 * ZUnit) \div 2 /\ Abs(x - s.carX) < hitDistX
           a == [s EXCEPT !.obstaclePool[i] = moved]
           b == IF hit
                THEN [crash([a EXCEPT !.last.hits = Append(@, i)], FALSE)
                        EXCEPT !.obstaclePool[i].active = FALSE]
                ELSE a
       IN IF z > 50 * ZUnit THEN [b EXCEPT !.obstaclePool[i].active = FALSE] ELSE b

RECURSIVE ObstacleLoop(_, _, _, _, _)
ObstacleLoop(s, i, dt, diff5, r) ==
  IF i > Len(s.obstaclePool) THEN s
  ELSE ObstacleLoop(ObstacleStep(s, i, dt, diff5, r), i + 1, dt, diff5, r)

\* A variant of CoinStep that recycles a coin only when it is collected.
CoinStepKeeping(c, carx, moveZ) ==
  IF ~c.active THEN c
  ELSE LET z == c.z + moveZ
           taken == Abs(z) < 2 * ZUnit /\ Abs(c.x - carx) < (5 * XUnit) \div 2
       IN [c EXCEPT !.z = z, !.active = ~taken]

CoinStep(c, carx, moveZ) ==
  IF ~c.active THEN c
  ELSE LET z == c.z + moveZ
           taken == Abs(z) < 2 * ZUnit /\ Abs(c.x - carx) < (5 * XUnit) \div 2
       IN [c EXCEPT !.z = z, !.active = ~(taken \/ z > 20 * ZUnit)]

CoinsTaken(pool, carx, moveZ) ==
  Cardinality({i \in DOMAIN pool :
     /\ pool[i].active
     /\ Abs(pool[i].z + moveZ) < 2 * ZUnit
     /\ Abs(pool[i].x - carx) < (5 * XUnit) \div 2})

Pools(s) == [ obstacles |-> s.obstaclePool, coins |-> s.coinPool ]

updateEntities(s, dt, moveZ, diff5, r) ==
  LET a == IF r.spawnObstacle THEN spawnObstacleFromPool(s, r) ELSE s
      patterned == (a.carZ \div ZUnit) % 800 < 50 /\ r.spawnCoins
      b0 == IF patterned THEN spawnCoinPattern(a, r) ELSE a
      b == IF r.spawnObstacle \/ patterned
           THEN [b0 EXCEPT !.last.coinPattern = patterned,
                           !.last.pools = [ before |-> Pools(s), mid |-> Pools(a),
                                            after |-> Pools(b0) ]]
           ELSE b0
      c == ObstacleLoop(b, 1, dt, diff5, r)
  IN [c EXCEPT !.coins = @ + 10 * CoinsTaken(c.coinPool, c.carX, moveZ),
               !.coinPool = [i \in DOMAIN c.coinPool |->
                                CoinStep(c.coinPool[i], c.carX, moveZ)]]

\* ----------------------------------------------------------------- animate
\* CAR_CATALOG[0], the multipliers in percent
Car == [ speedMult |-> 100, handlingMult |-> 100 ]

\* difficulty = 1 + Math.floor(currentScore / 2000) * 0.2, in fifths
Difficulty5(sc) == 5 + sc \div DIFFICULTY_STEP
\* A variant of DifficultyLevelOf that gains a level with every step of score.
DifficultyLevelPerStep(sc) == sc \div DIFFICULTY_STEP + 1

\* A variant of DifficultyLevelOf that starts over at every second level.
DifficultyLevelWrapping(sc) == (((5 + sc \div DIFFICULTY_STEP) \div 5) % 2) + 1

\* Math.floor(difficulty) + 1
DifficultyLevelOf(sc) == Difficulty5(sc) \div 5 + 1
\* maxSpeed = 5.5 * speedMult * (1 + difficulty * 0.05), in speed units
MaxSpeed(diff5) ==
  (((((11 * SpeedUnit) \div 2) * Car.speedMult) \div 100) * (100 + diff5)) \div 100

\* A variant of AccelRate that gives no push to a car at rest.
AccelRateRolling(sp) ==
  IF sp > 3 * SpeedUnit THEN 25
  ELSE IF sp > SpeedUnit THEN 33
  ELSE IF sp > 0 THEN 20
  ELSE 0

\* accelRate by currentKph = speed * 60, in percent
AccelRate(sp) ==
  IF sp > 3 * SpeedUnit THEN 25
  ELSE IF sp > SpeedUnit THEN 33
  ELSE 20
\* rate (percent of a speed unit per second) * dt, in speed units
SpeedDelta(ratePct, dt) == (ratePct * (SpeedUnit \div 100) * dt) \div TimeUnit

\* A variant of DriveSpeed whose brake does not stop at 0.
DriveSpeedBrakeThrough(sp, drive, dt, maxSpeed) ==
  IF drive = "GAS" THEN Min(sp + SpeedDelta(AccelRate(sp), dt), maxSpeed)
  ELSE IF drive = "BRAKING" THEN sp - SpeedDelta(1200, dt)
  ELSE Max(sp - SpeedDelta(100, dt), 0)

\* A variant of DriveSpeed that coasts on below 0.
DriveSpeedCoastThrough(sp, drive, dt, maxSpeed) ==
  IF drive = "GAS" THEN Min(sp + SpeedDelta(AccelRate(sp), dt), maxSpeed)
  ELSE IF drive = "BRAKING" THEN Max(sp - SpeedDelta(1200, dt), 0)
  ELSE sp - SpeedDelta(100, dt)

\* the speed integration of one tick
DriveSpeed(sp, drive, dt, maxSpeed) ==
  IF drive = "GAS" THEN Min(sp + SpeedDelta(AccelRate(sp), dt), maxSpeed)
  ELSE IF drive = "BRAKING" THEN Max(sp - SpeedDelta(1200, dt), 0)
  ELSE Max(sp - SpeedDelta(100, dt), 0)

\* currentSteer += (targetSteer - currentSteer) * LERP_FACTOR
LerpSteer(cur, target) == cur + Trunc(target - cur, LERP_DIV)

\* turnAmount = currentSteer * 14.0 * handlingMult * max(0.5, speed / maxSpeed) * dt,
\* in x units
TurnAmount(steer, sp, maxSpeed, dt) ==
  LET handling == IF 2 * sp >= maxSpeed
                  THEN (14 * Car.handlingMult * sp) \div maxSpeed
                  ELSE (14 * Car.handlingMult) \div 2
      perSecond == Trunc(steer * handling * XUnit, SteerUnit * 100)
  IN Scale(perSecond, dt, TimeUnit)

\* A variant of ScoreGain that counts the frames of the tick instead.
ScoreGainByTime(sp, dt) == dt \div FrameDt

\* Math.floor(moveZ / 2) for moveZ = speed * 40 * dt
ScoreGain(sp, dt) == (sp * dt) \div ((SpeedUnit \div 20) * TimeUnit)

\* A variant of simulate whose barrier stands at SIDE_BARRIER_X itself.
simulateWideRoad(s, dt, r) ==
  LET diff5 == Difficulty5(s.score)
      maxSpeed == MaxSpeed(diff5)
      sp1 == DriveSpeed(s.speed, s.currentDriveState, dt, maxSpeed)
      steer == LerpSteer(s.currentSteer, s.targetSteer)
      x == s.carX + TurnAmount(steer, sp1, maxSpeed, dt)
      a == [s EXCEPT !.difficultyLevel = DifficultyLevelOf(s.score),
                     !.speed = sp1, !.currentSteer = steer, !.carX = x,
                     !.last.simTicks = @ + 1, !.last.dt = dt]
      barrierLimit == SIDE_BARRIER_X * XUnit
      b == IF x > barrierLimit \/ x < -barrierLimit
           THEN LET h == [a EXCEPT !.health = Max(0, @ - (60 * HealthUnit * dt) \div TimeUnit),
                                   !.speed = (@ * 19) \div 20]
                IN IF h.health <= 0 THEN crash(h, TRUE) ELSE h
           ELSE a
      moveZ == ZAdvance(b.speed, 0, dt)
      c == [b EXCEPT !.last.tickSpeed = b.speed,
                     !.score = @ + ScoreGain(b.speed, dt),
                     !.carZ = (@ + moveZ) % (800 * ZUnit)]
      e == updateEntities(c, dt, moveZ, diff5, r)
  IN RequestAnim(e)

\* the simulation step of animate (GAME MODE), dt already read
simulate(s, dt, r) ==
  LET diff5 == Difficulty5(s.score)
      maxSpeed == MaxSpeed(diff5)
      sp1 == DriveSpeed(s.speed, s.currentDriveState, dt, maxSpeed)
      steer == LerpSteer(s.currentSteer, s.targetSteer)
      x == s.carX + TurnAmount(steer, sp1, maxSpeed, dt)
      a == [s EXCEPT !.difficultyLevel = DifficultyLevelOf(s.score),
                     !.speed = sp1, !.currentSteer = steer, !.carX = x,
                     !.last.simTicks = @ + 1, !.last.dt = dt]
      barrierLimit == SIDE_BARRIER_X * XUnit - (3 * XUnit) \div 2
      b == IF x > barrierLimit \/ x < -barrierLimit
           THEN LET h == [a EXCEPT !.health = Max(0, @ - (60 * HealthUnit * dt) \div TimeUnit),
                                   !.speed = (@ * 19) \div 20]
                IN IF h.health <= 0 THEN crash(h, TRUE) ELSE h
           ELSE a
      moveZ == ZAdvance(b.speed, 0, dt)
      c == [b EXCEPT !.last.tickSpeed = b.speed,
                     !.score = @ + ScoreGain(b.speed, dt),
                     !.carZ = (@ + moveZ) % (800 * ZUnit)]
      e == updateEntities(c, dt, moveZ, diff5, r)
  IN RequestAnim(e)

animate(s, r) ==
  LET s0 == [s EXCEPT !.last.animCalls = @ + 1]
  IN IF s0.isPaused THEN s0
     ELSE IF s0.gameState \notin {"RUNNING", "SHOP"} THEN s0
     ELSE LET dt == ClockDelta(s0)
              s1 == ClockRead(s0)
          IN IF s1.gameState = "SHOP" THEN RequestAnim(s1)
             ELSE simulate(s1, dt, r)

\* ------------------------------------------------------------ processHands
\* A hand observation: n points were delivered; of them the model keeps the
\* wrist (0), the middle knuckle (9) and the finger tips (8, 12, 16, 20).
HAND_POINTS == 21
Throw(s) == [s EXCEPT !.last.threw = TRUE]

\* the sum of the four wrist-to-tip distances
TipDistances(hand) ==
  Hypot(hand.tips[1][1] - hand.wrist[1], hand.tips[1][2] - hand.wrist[2])
  + Hypot(hand.tips[2][1] - hand.wrist[1], hand.tips[2][2] - hand.wrist[2])
  + Hypot(hand.tips[3][1] - hand.wrist[1], hand.tips[3][2] - hand.wrist[2])
  + Hypot(hand.tips[4][1] - hand.wrist[1], hand.tips[4][2] - hand.wrist[2])

\* A variant of OneHandDrive with one cutoff at 0.30 and no band.
OneHandDriveCutoff(hand) ==
  IF 10 * TipDistances(hand) < 12 * SteerUnit THEN "BRAKING" ELSE "GAS"

\* avgDist < 0.25 -> BRAKING, avgDist > 0.35 -> GAS, on the sum of the four
OneHandDrive(hand) ==
  LET sum == TipDistances(hand)
  IN IF sum < SteerUnit THEN "BRAKING"
     ELSE IF 5 * sum > 7 * SteerUnit THEN "GAS"
     ELSE "NEUTRAL"

\* A variant of OneHandSteer without the dead zone.
OneHandSteerLive(hand) == (hand.knuckle[1] - hand.wrist[1]) * (-8)

\* dead zone 0.03, gain -8.0
OneHandSteer(hand) ==
  LET dx == hand.knuckle[1] - hand.wrist[1]
  IN IF Abs(dx) * 100 < 3 * SteerUnit THEN 0 ELSE dx * (-8)

\* A variant of TwoHandAngle that takes the first detected hand for the left
\* one.
TwoHandAngleBySlot(h1, h2) == Atan2(h2[2] - h1[2], h2[1] - h1[1])

\* angle of the line from the left knuckle to the right one
TwoHandAngle(h1, h2) ==
  LET left == IF h1[1] < h2[1] THEN h1 ELSE h2
      right == IF h1[1] < h2[1] THEN h2 ELSE h1
  IN Atan2(right[2] - left[2], right[1] - left[1])

\* A variant of Blend that leaves out the clamp of line 795.
BlendUnclamped(s, steerInput, driveState) ==
  [s EXCEPT !.targetSteer = Trunc(@ * 7 + PowerCurve(steerInput) * 3, 10),
            !.currentDriveState = driveState]

\* clamp, power curve, exponential moving average, drive state
Blend(s, steerInput, driveState) ==
  LET clamped == Max(-SteerUnit, Min(SteerUnit, steerInput))
      curved == PowerCurve(clamped)
  IN [s EXCEPT !.targetSteer = Trunc(@ * 7 + curved * 3, 10),
               !.currentDriveState = driveState]

\* A variant of processHands that brakes when the hands are lost.
processHandsAutoBrake(s, landmarks) ==
  IF Len(landmarks) = 0
  THEN Blend([s EXCEPT !.isTwoHandMode = FALSE], 0, "BRAKING")
  ELSE IF Len(landmarks) = 1
  THEN LET a == [s EXCEPT !.isTwoHandMode = FALSE]
           hand == landmarks[1]
       IN IF hand.n <= 20 THEN Throw(a)
          ELSE Blend(a, OneHandSteer(hand), OneHandDrive(hand))
  ELSE LET a == [s EXCEPT !.isTwoHandMode = TRUE]
       IN IF landmarks[1].n <= 9 \/ landmarks[2].n <= 9 THEN Throw(a)
          ELSE LET angle == TwoHandAngle(landmarks[1].knuckle, landmarks[2].knuckle)
               IN Blend([a EXCEPT !.virtualSteerAngle = Trunc(angle * 57296, 1000)],
                        angle * (-3), "GAS")

processHands(s, landmarks) ==
  IF Len(landmarks) = 0
  THEN Blend([s EXCEPT !.isTwoHandMode = FALSE], 0, "NEUTRAL")
  ELSE IF Len(landmarks) = 1
  THEN LET a == [s EXCEPT !.isTwoHandMode = FALSE]
           hand == landmarks[1]
       IN \* hand[9].x and the tips' t.x are read of undefined below 21 points
          IF hand.n <= 9 THEN Throw(a)
          ELSE IF hand.n <= 20 THEN Throw(a)
          ELSE Blend(a, OneHandSteer(hand), OneHandDrive(hand))
  ELSE IF Len(landmarks) = 2
  THEN LET a == [s EXCEPT !.isTwoHandMode = TRUE]
       IN IF landmarks[1].n <= 9 \/ landmarks[2].n <= 9 THEN Throw(a)
          ELSE LET angle == TwoHandAngle(landmarks[1].knuckle, landmarks[2].knuckle)
               IN Blend([a EXCEPT !.virtualSteerAngle = Trunc(angle * 57296, 1000)],
                        angle * (-3), "GAS")
  ELSE Blend(s, 0, "NEUTRAL")

\* drawLandmarks reads hand[0..20] of every hand
drawLandmarks(s, landmarks) ==
  IF \E k \in 1..Len(landmarks) : landmarks[k].n < HAND_POINTS THEN Throw(s) ELSE s

\* ----------------------------------------------------------- predictWebcam
\* det: what detectForVideo returns, NoResult for a result without landmarks
NoResult == [ landmarks |-> FALSE, hands |-> NoHands ]
Detected(hands) == [ landmarks |-> TRUE, hands |-> hands ]

\* predictWebcam() were a cycle without a result to count as a poll without hands
\* A variant of Throttled that lets every invocation through.
ThrottledNever(s) == FALSE

\* predictWebcam's test `now - lastCVTime >= CV_THROTTLE_MS`, negated.
Throttled(s) == s.sinceCV < ThrottleDt

predictWebcamNeutral(s, det) ==
  LET s0 == [s EXCEPT !.last.cvCalls = @ + 1, !.last.ctl = Control(s)]
  IN IF s0.gameState # "RUNNING" THEN [s0 EXCEPT !.last.cvGate = "notRunning"]
     ELSE IF Throttled(s0)
     THEN RequestCv(processHands([s0 EXCEPT !.last.cvGate = "throttled"], NoHands))
     ELSE LET s1 == [s0 EXCEPT !.sinceCV = 0]
          IN IF ~(s1.handLandmarker /\ s1.webcamRunning)
             THEN RequestCv(processHands([s1 EXCEPT !.last.cvGate = "noDetector"], NoHands))
             ELSE IF ~det.landmarks
             THEN RequestCv(processHands([s1 EXCEPT !.last.cvGate = "noResult",
                                                    !.last.pollGap = s1.sincePoll,
                                                    !.sincePoll = 0], NoHands))
             ELSE LET s2 == processHands(
                              [s1 EXCEPT !.last.cvGate = "processed",
                                         !.last.pollGap = s1.sincePoll,
                                         !.sincePoll = 0,
                                         !.last.hands = det.hands,
                                         !.polls = @ + 1],
                              det.hands)
                      s3 == IF s2.last.threw THEN s2 ELSE drawLandmarks(s2, det.hands)
                  IN IF s3.last.threw THEN s3 ELSE RequestCv(s3)

predictWebcam(s, det) ==
  LET s0 == [s EXCEPT !.last.cvCalls = @ + 1, !.last.ctl = Control(s)]
  IN IF s0.gameState # "RUNNING" THEN [s0 EXCEPT !.last.cvGate = "notRunning"]
     ELSE IF Throttled(s0)
     THEN RequestCv([s0 EXCEPT !.last.cvGate = "throttled"])
     ELSE LET s1 == [s0 EXCEPT !.sinceCV = 0]
          IN IF ~(s1.handLandmarker /\ s1.webcamRunning)
             THEN RequestCv([s1 EXCEPT !.last.cvGate = "noDetector"])
             ELSE IF ~det.landmarks
             THEN RequestCv([s1 EXCEPT !.last.cvGate = "noResult",
                                       !.last.pollGap = s1.sincePoll,
                                       !.sincePoll = 0])
             ELSE LET s2 == processHands(
                              [s1 EXCEPT !.last.cvGate = "processed",
                                         !.last.pollGap = s1.sincePoll,
                                         !.sincePoll = 0,
                                         !.last.hands = det.hands,
                                         !.polls = @ + 1],
                              det.hands)
                      s3 == IF s2.last.threw THEN s2 ELSE drawLandmarks(s2, det.hands)
                  IN IF s3.last.threw THEN s3 ELSE RequestCv(s3)

\* --------------------------------------------------------------- lifecycle
resetGame(s) ==
  resetPools(ClockRead(
    [s EXCEPT !.score = 0, !.speed = 0, !.carX = 0, !.carZ = 0,
              !.targetSteer = 0, !.currentSteer = 0,
              !.health = 100 * HealthUnit, !.gameState = "RUNNING",
              !.isPaused = FALSE, !.difficultyLevel = 1,
              !.last.resets = @ + 1]))

startLoops(s, r, det) == predictWebcam(animate(stopAllLoops(s), r), det)

\* initiateRaceSequence from "this.initThreeJS()" on
FinishStartup(s, r, det) ==
  startLoops(resetGame([s EXCEPT !.startupPc = "none"]), r, det)

\* initiateRaceSequence from "2. Connect Camera" on
ConnectCamera(s, r, det) ==
  IF ~s.webcamRunning
  THEN [s EXCEPT !.loadingMessage = "CONNECTING", !.startupPc = "camera"]
  ELSE FinishStartup(s, r, det)

\* preloadAI(): starts a load unless one is kept in cvLoadingPromise
preloadAI(s) ==
  IF s.cvLoadingPromise # "null" THEN s ELSE [s EXCEPT !.cvLoadingPromise = "pending"]

initiateRaceSequence(s, r, det) ==
  LET a == [s EXCEPT !.gameState = "LOADING", !.audioCtx = TRUE]
  IN IF ~a.aiReady
     THEN [preloadAI(a) EXCEPT !.loadingMessage = "FINALIZING", !.startupPc = "ai"]
     ELSE ConnectCamera(a, r, det)

startNameEntry(s) == [stopAllLoops(s) EXCEPT !.gameState = "NAME_INPUT"]

enterShop(s, r) ==
  LET a == stopAllLoops(s)
      n == (s.animQueue + s.cvQueue) - (a.animQueue + a.cvQueue)
  IN animate([a EXCEPT !.gameState = "SHOP", !.last.cancelled = n], r)

returnToMenu(s) == [stopAllLoops(s) EXCEPT !.gameState = "IDLE"]

togglePause(s) ==
  IF ~s.isPaused
  THEN ClockStop([s EXCEPT !.isPaused = TRUE])
  ELSE ClockStart([s EXCEPT !.isPaused = FALSE])

ngOnDestroy(s) == [stopAllLoops(s) EXCEPT !.destroyed = TRUE]

\* ------------------------------------------------------------------ inputs
Hand(n, wrist, knuckle, tip) ==
  [ n |-> n, wrist |-> wrist, knuckle |-> knuckle, tips |-> << tip, tip, tip, tip >> ]
\* an open palm laid over to the left, close to the camera: a raw steer of -3.2
\* (beyond full lock), GAS
OpenLeft == Hand(HAND_POINTS, << 500, 800 >>, << 900, 600 >>, << 500, 400 >>)
\* two hands on a tilted wheel
WheelLeft == Hand(HAND_POINTS, << 250, 700 >>, << 300, 600 >>, << 300, 450 >>)
WheelRight == Hand(HAND_POINTS, << 750, 500 >>, << 700, 400 >>, << 700, 250 >>)
\* an observation cut short after 10 points
ShortHand == [OpenLeft EXCEPT !.n = 10]

\* The detector's answers followed through the whole lifecycle, and those
\* followed through a race of gestures.
Detections == { NoResult, Detected(<< OpenLeft >>), Detected(<< ShortHand >>) }
\* One upright hand: the knuckle dx to the side of the wrist, the four tips
\* open above it.
OneHand(dx, open) ==
  Hand(HAND_POINTS, << 500, 800 >>, << 500 + dx, 600 >>, << 500, 800 - open >>)
\* Fists closing and opening around the BRAKING threshold (avgDist 0.25), held
\* a little to either side of the wrist, within the dead zone (|dx| < 0.03).
Fists == { OneHand(29, 240), OneHand(-29, 260) }
\* The wheel turned the other way (the y of the two hands exchanged), and two
\* hands one above the other.
SwapLeft == Hand(HAND_POINTS, << 250, 500 >>, << 300, 400 >>, << 300, 250 >>)
SwapRight == Hand(HAND_POINTS, << 750, 700 >>, << 700, 600 >>, << 700, 450 >>)
StackUpper == Hand(HAND_POINTS, << 500, 500 >>, << 500, 400 >>, << 500, 250 >>)
StackLower == Hand(HAND_POINTS, << 500, 700 >>, << 500, 600 >>, << 500, 450 >>)
Wheels ==
  { << WheelLeft, WheelRight >>, << WheelRight, WheelLeft >>,
    << SwapLeft, SwapRight >>, << StackUpper, StackLower >> }
HandDetections ==
  Detections \cup { Detected(NoHands) } \cup { Detected(w) : w \in Wheels }
    \cup { Detected(<< h >>) : h \in Fists }
\* In the races on a busy road every poll that delivers a result sees the
\* steering hand.
RaceDetections == { Detected(<< OpenLeft >>) }

\* The Math.random() draws of one tick: the obstacle spawn and its lane, distance,
\* kind, lane-change timer and speed offset; the coin pattern; the lane and timer a
\* traffic car re-targets to.
NoDraw ==
  [ spawnObstacle |-> FALSE, type |-> "ROCK", lane |-> 0, zPos |-> -400,
    timer |-> TimeUnit, speedOffset |-> 0, spawnCoins |-> FALSE, coinLane |-> 0,
    zigzag |-> FALSE, newLane |-> 0, newTimer |-> 2 * TimeUnit ]
Draws == { NoDraw }
RaceDraws ==
  { NoDraw,
    [NoDraw EXCEPT !.spawnObstacle = TRUE, !.type = "TRAFFIC", !.newLane = 4],
    [NoDraw EXCEPT !.spawnObstacle = TRUE, !.type = "ROCK", !.spawnCoins = TRUE] }

\* The detector's answers still explored.
DetChoices(dets) == IF polls < MaxPolls THEN dets ELSE { NoResult }
\* The time to the next frame: one display period, or a stall.
DtChoices ==
  IF sinceOld + FrameDt > MaxQuietFrames * FrameDt
  THEN { StallDt } ELSE { FrameDt, StallDt }

\* ---------------------------------------------------------- service worker
\* A request: its method, the site it goes to ("origin": self.location.origin,
\* "listed": a hostname that includes one of EXTERNAL_DOMAINS, "other") and
\* what it asks for.
Request(method, site, path) == [ method |-> method, site |-> site, path |-> path ]
URLS_TO_CACHE == { Request("GET", "origin", "index") }
Requests ==
  { Request("GET", "origin", "index"), Request("GET", "origin", "asset"),
    Request("GET", "listed", "asset"), Request("GET", "other", "asset"),
    Request("POST", "origin", "asset") }
\* What the network answers while it is reachable: a page of the origin, a
\* CORS answer, the opaque answer to a no-cors request to another site (it
\* shows status 0), or an error page.
Response(status, type) == [ status |-> status, type |-> type ]
Responses(req) ==
  IF req.site = "origin"
  THEN { Response(200, "basic"), Response(404, "basic") }
  ELSE { Response(200, "cors"), Response(0, "opaque"), Response(404, "cors") }
\* fetch() has delivered what was asked for
Delivered(resp) == resp.status = 200 \/ resp.type = "opaque"

NoJob == [ pc |-> "none" ]
NoAnswer == [ source |-> "none" ]
\* After install: the cache holds URLS_TO_CACHE, the network is reachable.
\*   jobs       respondWith promises in progress: "match" (caches.match
\*              pending), "fetch" (fetch pending), "put" (answered; caches.open
\*              and cache.put pending)
\*   delivered  requests the network has delivered to the page through the
\*              worker (observation only)
\*   answer     the last answer given to the page (observation only): its
\*              source ("cache" | "network" | "fallback" | "browser"), whether
\*              the request had been delivered before it was sent (known), the
\*              fetches made for it, the cache before and after
Installed ==
  [ cache |-> URLS_TO_CACHE, online |-> TRUE, requests |-> 0,
    jobs |-> [i \in 1..MaxJobs |-> NoJob], delivered |-> {}, answer |-> NoAnswer ]

\* line 40: the requests the worker answers itself
Handled(req) == req.method = "GET" /\ req.site \in { "origin", "listed" }

\* line 49, negated: the responses that are put in the cache
Cacheable(resp) == resp.status = 200 /\ resp.type \in { "basic", "cors", "opaque" }

Answer(w, job, source, status, fetches) ==
  [ source |-> source, req |-> job.req, status |-> status, known |-> job.known,
    fetches |-> fetches, before |-> w.cache ]

\* the 'fetch' listener up to respondWith(caches.match(..))
onFetch(w, req) ==
  LET i == CHOOSE k \in 1..MaxJobs :
             /\ w.jobs[k] = NoJob
             /\ \A j \in 1..(k - 1) : w.jobs[j] # NoJob
      job == [ pc |-> "match", req |-> req, known |-> req \in w.delivered ]
      a == [w EXCEPT !.requests = @ + 1]
  IN IF Handled(req)
     THEN [a EXCEPT !.jobs[i] = job, !.answer = NoAnswer]
     ELSE \* no respondWith: the browser fetches as if there were no worker
          [a EXCEPT !.answer = Answer(w, job, "browser",
                                       IF w.online THEN 200 ELSE -1, 1)]

\* caches.match settles
onMatch(w, i) ==
  LET job == w.jobs[i]
  IN IF job.req \in w.cache
     THEN [w EXCEPT !.jobs[i] = NoJob, !.answer = Answer(w, job, "cache", 200, 0)]
     ELSE [w EXCEPT !.jobs[i].pc = "fetch", !.answer = NoAnswer]

\* fetch(event.request) settles: with a response, or (resp = NoJob) rejected
onFetched(w, i, resp) ==
  LET job == w.jobs[i]
  IN IF resp = NoJob
     THEN [w EXCEPT !.jobs[i] = NoJob,
                    !.answer = Answer(w, job, "fallback", 408, 1)]
     ELSE LET a == [w EXCEPT !.answer = Answer(w, job, "network", resp.status, 1),
                             !.delivered = IF Delivered(resp)
                                           THEN @ \cup { job.req } ELSE @]
          IN IF Cacheable(resp)
             THEN [a EXCEPT !.jobs[i].pc = "put"]
             ELSE [a EXCEPT !.jobs[i] = NoJob]

\* caches.open(CACHE_NAME).then(cache => cache.put(..)) settles
onPut(w, i) ==
  [w EXCEPT !.cache = @ \cup { w.jobs[i].req }, !.jobs[i] = NoJob,
            !.answer = NoAnswer]

\* -------------------------------------------------------------------- Init
\* The component after construction and ngAfterViewInit: the scene, the clock and
\* the pools exist, the model download has begun, the save file is empty.
Constructed ==
  [ gameState |-> "IDLE", isPaused |-> FALSE, loadingMessage |-> "BOOT",
    destroyed |-> FALSE, audioCtx |-> FALSE, aiReady |-> FALSE,
    cvLoadingPromise |-> "pending", handLandmarker |-> FALSE,
    webcamRunning |-> FALSE, startupPc |-> "none", animId |-> "null",
    cvId |-> "null", animQueue |-> 0, cvQueue |-> 0,
    clockRunning |-> FALSE, clockAutoStart |-> TRUE,
    sinceOld |-> StallDt, sinceCV |-> ThrottleDt, sincePoll |-> ThrottleDt,
    score |-> 0, speed |-> 0,
    carX |-> 0, carZ |-> 0, targetSteer |-> 0,
    currentSteer |-> 0, health |-> 100 * HealthUnit,
    difficultyLevel |-> 1, currentDriveState |-> "NEUTRAL",
    isTwoHandMode |-> FALSE, virtualSteerAngle |-> 0,
    obstaclePool |-> initObstaclePool, coinPool |-> initCoinPool, coins |-> 0,
    leaderboard |-> << >>, ticks |-> 0, polls |-> 0, last |-> Quiet("init"),
    worker |-> Installed ]

InitOf(s) ==
  /\ gameState = s.gameState
  /\ isPaused = s.isPaused
  /\ loadingMessage = s.loadingMessage
  /\ destroyed = s.destroyed
  /\ audioCtx = s.audioCtx
  /\ aiReady = s.aiReady
  /\ cvLoadingPromise = s.cvLoadingPromise
  /\ handLandmarker = s.handLandmarker
  /\ webcamRunning = s.webcamRunning
  /\ startupPc = s.startupPc
  /\ animId = s.animId
  /\ cvId = s.cvId
  /\ animQueue = s.animQueue
  /\ cvQueue = s.cvQueue
  /\ clockRunning = s.clockRunning
  /\ clockAutoStart = s.clockAutoStart
  /\ sinceOld = s.sinceOld
  /\ sinceCV = s.sinceCV
  /\ sincePoll = s.sincePoll
  /\ score = s.score
  /\ speed = s.speed
  /\ carX = s.carX
  /\ carZ = s.carZ
  /\ targetSteer = s.targetSteer
  /\ currentSteer = s.currentSteer
  /\ health = s.health
  /\ difficultyLevel = s.difficultyLevel
  /\ currentDriveState = s.currentDriveState
  /\ isTwoHandMode = s.isTwoHandMode
  /\ virtualSteerAngle = s.virtualSteerAngle
  /\ obstaclePool = s.obstaclePool
  /\ coinPool = s.coinPool
  /\ coins = s.coins
  /\ leaderboard = s.leaderboard
  /\ ticks = s.ticks
  /\ polls = s.polls
  /\ last = s.last
  /\ worker = s.worker

Init == InitOf(Constructed)

\* ----------------------------------------------------------------- actions
StartNameEntry ==
  /\ ~destroyed
  /\ Set(startNameEntry(Begin(Cur, "startNameEntry")))

SubmitNameOf(draws, dets) ==
  /\ ~destroyed
  /\ gameState = "NAME_INPUT"
  /\ startupPc = "none"
  /\ \E r \in draws, det \in DetChoices(dets) :
       Set(initiateRaceSequence(Begin(Cur, "submitName"), r, det))
SubmitName == SubmitNameOf(Draws, Detections)

EnterShop ==
  /\ ~destroyed
  /\ Set(enterShop(Begin(Cur, "enterShop"), NoDraw))

ReturnToMenu ==
  /\ ~destroyed
  /\ Set(returnToMenu(Begin(Cur, "returnToMenu")))

\* keydownListener: 'p' or Escape
\* The time from the last handler to a key press: none, or part of a display
\* period.
KeyDelays ==
  IF sinceOld + FrameDt > MaxQuietFrames * FrameDt
  THEN { 0 } ELSE { 0, FrameDt }

Keydown ==
  /\ ~destroyed
  /\ gameState = "RUNNING"
  /\ \E d \in KeyDelays :
       Set(togglePause(Elapsed(Begin(Cur, "togglePause"), d)))

NgOnDestroy ==
  /\ ~destroyed
  /\ Set(ngOnDestroy(Begin(Cur, "ngOnDestroy")))

\* The model download ends; a start-up awaiting it goes on.
PreloadSettle ==
  /\ cvLoadingPromise = "pending"
  /\ \E ok \in BOOLEAN, r \in Draws, det \in DetChoices(Detections) :
       LET a == [Begin(Cur, IF ok THEN "preloadLoaded" ELSE "preloadFailed")
                   EXCEPT !.last.awaited = (startupPc = "ai")]
           b == IF ok
                THEN [a EXCEPT !.handLandmarker = TRUE, !.aiReady = TRUE,
                               !.cvLoadingPromise = "resolved"]
                ELSE [a EXCEPT !.cvLoadingPromise = "null"]
       IN Set(IF b.startupPc = "ai" THEN ConnectCamera(b, r, det) ELSE b)

\* getUserMedia ends; setupCamera returns or throws into the catch block.
CameraSettle ==
  /\ startupPc = "camera"
  /\ \E ok \in BOOLEAN, r \in Draws, det \in DetChoices(Detections) :
       LET a == [Begin(Cur, IF ok THEN "cameraGranted" ELSE "cameraDenied")
                   EXCEPT !.last.awaited = TRUE]
       IN Set(IF ok
              THEN FinishStartup([a EXCEPT !.webcamRunning = TRUE], r, det)
              ELSE [a EXCEPT !.loadingMessage = "ERROR", !.startupPc = "none"])

\* One display frame: the pending callbacks run in the order they were requested.
FrameOf(draws, dets, maxTicks) ==
  /\ animQueue + cvQueue > 0
  /\ (animQueue > 0 /\ ~isPaused /\ gameState = "RUNNING") => ticks < maxTicks
  /\ \E d \in DtChoices, r \in draws, det \in DetChoices(dets) :
       LET s0 == Elapsed(Begin(Cur, "frame"), d)
           s1 == IF s0.animQueue > 0 THEN animate(TakeAnim(s0), r) ELSE s0
           s2 == IF s1.cvQueue > 0 THEN predictWebcam(TakeCv(s1), det) ELSE s1
       IN Set([s2 EXCEPT !.ticks = @ + s2.last.simTicks])
Frame == FrameOf(Draws, Detections, MaxTicks)

\* A long time passes with no callback pending.
Wait ==
  /\ animQueue + cvQueue = 0
  /\ Elapsed(Cur, StallDt) # Cur
  /\ Set(Elapsed(Begin(Cur, "wait"), StallDt))

Next ==
  \/ StartNameEntry
  \/ SubmitName
  \/ EnterShop
  \/ ReturnToMenu
  \/ Keydown
  \/ NgOnDestroy
  \/ PreloadSettle
  \/ CameraSettle
  \/ Frame
  \/ Wait

Spec == Init /\ [][Next]_vars

\* ------------------------------------------------------------ the race alone
\* The component as a start-up has left it when the detector and the camera were
\* granted: initiateRaceSequence up to "this.initThreeJS()".
Booted ==
  [Constructed EXCEPT !.gameState = "LOADING", !.loadingMessage = "CONNECTING",
                      !.audioCtx = TRUE, !.aiReady = TRUE, !.handLandmarker = TRUE,
                      !.cvLoadingPromise = "resolved", !.webcamRunning = TRUE]
\* ... and after resetGame and startLoops
RaceStart == FinishStartup(Begin(Booted, "cameraGranted"), NoDraw, NoResult)

\* An obstacle three road units ahead of the car, off its line by x road units.
Ahead(type, x) ==
  [ active |-> TRUE, type |-> type, x |-> x * XUnit, z |-> (-3) * ZUnit,
    laneChangeTimer |-> TimeUnit, speedOffset |-> 0, targetX |-> x * XUnit,
    width |-> KindWidth(type) ]
\* A race some way in: the car rolls at 240 km/h with the hands withdrawn, it has
\* taken damage down to health h, and one obstacle has come close.
MidRace(o, h) ==
  Begin([RaceStart EXCEPT !.speed = 4 * SpeedUnit, !.health = h * HealthUnit,
                          !.obstaclePool[1] = o], "init")
\* A race some way in: the car drifts left along the edge of the road, steered
\* by an open hand, and the barrier has drained its health down to h.
Drifting(h) ==
  Begin([RaceStart EXCEPT !.speed = 4 * SpeedUnit, !.health = h * HealthUnit,
                          !.carX = 1 - (SIDE_BARRIER_X * XUnit - (3 * XUnit) \div 2),
                          !.targetSteer = (-3 * SteerUnit) \div 10,
                          !.currentSteer = (-3 * SteerUnit) \div 10,
                          !.currentDriveState = "GAS"], "init")
\* A race far in: the score is one point short of the first step of
\* difficultyLevel, and an obstacle passes beside the car.
LateRace ==
  Begin([MidRace(Ahead("ROCK", 2), 100)
           EXCEPT !.score = 5 * DIFFICULTY_STEP - 1,
                  !.difficultyLevel = DifficultyLevelOf(5 * DIFFICULTY_STEP - 1)],
        "init")
RaceInits ==
  { RaceStart, Drifting(2), LateRace }
  \cup { MidRace(Ahead(type, 2), 100) : type \in { "TRAFFIC", "WALL", "ROCK" } }
  \cup { MidRace(Ahead(type, 0), 100 - 2 * CRASH_DAMAGE) :
           type \in { "TRAFFIC", "WALL", "ROCK" } }

RaceInit == \E s \in RaceInits : InitOf(s)
RaceFrame == FrameOf(RaceDraws, RaceDetections, MaxRaceTicks)
RaceSubmitName == SubmitNameOf(RaceDraws, RaceDetections)
RaceNext ==
  \/ RaceFrame
  \/ StartNameEntry
  \/ RaceSubmitName
SpecRace == RaceInit /\ [][RaceNext]_vars

\* Races steered by every kind of observation, on an empty road: from the
\* start of a race, or from a drift along the barrier that a tick can end.
HandsInit == \E s \in { RaceStart, Drifting(2) } : InitOf(s)
HandsFrame == FrameOf(Draws, HandDetections, MaxTicks)
HandsSubmitName == SubmitNameOf(Draws, HandDetections)
HandsNext ==
  \/ HandsFrame
  \/ StartNameEntry
  \/ HandsSubmitName
SpecHands == HandsInit /\ [][HandsNext]_vars

\* ------------------------------------------------------- the end of a race
\* An obstacle just outside the hit window (|z| < 2.5), 2.8 road units ahead.
Close(type, x) == [Ahead(type, x) EXCEPT !.z = (-14 * ZUnit) \div 5]
\* The last tick of a race in which two things go wrong: the car drifts into
\* the barrier on its last health while a wall stands in the outer lane ...
Cornered ==
  Begin([Drifting(1) EXCEPT !.score = 500,
                            !.obstaclePool[1] = Close("WALL", -8)], "init")
\* ... or it runs, damaged, into two walls standing one behind the other.
Pileup ==
  Begin([MidRace(Ahead("WALL", 0), CRASH_DAMAGE)
           EXCEPT !.score = 500,
                  !.obstaclePool[2] = Close("WALL", 0)], "init")
CrashInit == \E s \in { Cornered, Pileup } : InitOf(s)
CrashFrame == FrameOf(Draws, { NoResult }, MaxTicks)
CrashSubmitName == SubmitNameOf(Draws, { NoResult })
CrashNext ==
  \/ CrashFrame
  \/ StartNameEntry
  \/ CrashSubmitName
SpecCrash == CrashInit /\ [][CrashNext]_vars

\* ---------------------------------------------------- a drive straight on
\* One pedal is held for a second of frames of 1/60 s on an empty road: the
\* car starts from rest under GAS, or rolls at 2.0 under BRAKING, and the
\* hand that is seen keeps the gesture of the pedal, upright over the wrist.
Accelerating == Begin([RaceStart EXCEPT !.currentDriveState = "GAS"], "init")
Braking ==
  Begin([RaceStart EXCEPT !.speed = 2 * SpeedUnit,
                          !.currentDriveState = "BRAKING"], "init")
GasHand == OneHand(0, 400)
BrakeHand == OneHand(0, 200)
DriveDetections ==
  { NoResult,
    Detected(<< IF currentDriveState = "GAS" THEN GasHand ELSE BrakeHand >>) }
DriveInit == \E s \in { Accelerating, Braking } : InitOf(s)
DriveFrame ==
  /\ animQueue + cvQueue > 0
  /\ ticks < MaxDriveTicks
  /\ \E det \in DriveDetections :
       LET s0 == Elapsed(Begin(Cur, "frame"), FrameDt)
           s1 == IF s0.animQueue > 0 THEN animate(TakeAnim(s0), NoDraw) ELSE s0
           s2 == IF s1.cvQueue > 0 THEN predictWebcam(TakeCv(s1), det) ELSE s1
       IN Set([s2 EXCEPT !.ticks = @ + s2.last.simTicks])
DriveNext == DriveFrame
SpecDrive == DriveInit /\ [][DriveNext]_vars

\* ------------------------------------------------------ a cruise at top speed
\* GAS is held at the top speed of the first level on an empty road, so the
\* clamp of the speed integration keeps the speed where it is; the display
\* calls back every 1/60 s or every 1/120 s.
FastFrameDt == FrameDt \div 2
CruiseDts == { FrameDt, FastFrameDt }
Cruising ==
  Begin([RaceStart EXCEPT !.speed = MaxSpeed(Difficulty5(0)),
                          !.currentDriveState = "GAS"], "init")
CruiseInit == InitOf(Cruising)
CruiseFrame ==
  /\ animQueue + cvQueue > 0
  /\ ticks < MaxCruiseTicks
  /\ \E det \in { NoResult, Detected(<< GasHand >>) }, d \in CruiseDts :
       LET s0 == Elapsed(Begin(Cur, "frame"), d)
           s1 == IF s0.animQueue > 0 THEN animate(TakeAnim(s0), NoDraw) ELSE s0
           s2 == IF s1.cvQueue > 0 THEN predictWebcam(TakeCv(s1), det) ELSE s1
       IN Set([s2 EXCEPT !.ticks = @ + s2.last.simTicks])
CruiseNext == CruiseFrame
SpecCruise == CruiseInit /\ [][CruiseNext]_vars

\* -------------------------------------------------------- the leaderboard
\* updateLeaderboard on its own: from the component as constructed, with an
\* empty leaderboard, one race after another ends with some final score.
FinalScores == { 0, 10, 20, 30 }
BoardInit == InitOf(Constructed)
BoardUpdate ==
  /\ ~destroyed
  /\ \E finalScore \in FinalScores :
       Set(updateLeaderboard(Begin(Cur, "updateLeaderboard"), finalScore))
BoardNext == BoardUpdate
SpecBoard == BoardInit /\ [][BoardNext]_vars

\* ------------------------------------------------------ the service worker
\* The worker on its own, after install: the page sends requests, the
\* promises of the worker settle one by one, the network comes and goes.
WorkerInit == InitOf(Constructed)
FetchEvent ==
  /\ worker.requests < MaxRequests
  /\ \E k \in 1..MaxJobs : worker.jobs[k] = NoJob
  /\ \E req \in Requests : Set([Cur EXCEPT !.worker = onFetch(worker, req)])
MatchSettles ==
  \E i \in 1..MaxJobs :
    /\ worker.jobs[i].pc = "match"
    /\ Set([Cur EXCEPT !.worker = onMatch(worker, i)])
FetchSettles ==
  \E i \in 1..MaxJobs :
    /\ worker.jobs[i].pc = "fetch"
    /\ \E resp \in IF worker.online THEN Responses(worker.jobs[i].req) ELSE { NoJob } :
         Set([Cur EXCEPT !.worker = onFetched(worker, i, resp)])
PutSettles ==
  \E i \in 1..MaxJobs :
    /\ worker.jobs[i].pc = "put"
    /\ Set([Cur EXCEPT !.worker = onPut(worker, i)])
NetworkChanges ==
  /\ worker.requests < MaxRequests
  /\ Set([Cur EXCEPT !.worker.online = ~@, !.worker.answer = NoAnswer])
WorkerNext ==
  \/ FetchEvent
  \/ MatchSettles
  \/ FetchSettles
  \/ PutSettles
  \/ NetworkChanges
SpecWorker == WorkerInit /\ [][WorkerNext]_vars

\* ------------------------------------------------------------------ claims
\* C1: in every reachable state whose gameState is neither RUNNING nor SHOP no
\* animate callback and no predictWebcam callback is pending, and in SHOP no
\* predictWebcam callback is pending.
C1_NoCallbackOutsideRace ==
  /\ gameState \notin { "RUNNING", "SHOP" } => animQueue = 0 /\ cvQueue = 0
  /\ gameState = "SHOP" => cvQueue = 0

\* C2: a handler that ran while isPaused was true requested no animate and no
\* predictWebcam callback, and the clock is stopped while isPaused is true.
C2_PausedNothingRearms ==
  isPaused => last.animArmed = 0 /\ last.cvArmed = 0 /\ ~clockRunning

\* C3: a step that begins and ends with isPaused true leaves targetSteer,
\* currentDriveState, isTwoHandMode, speed, carX, health, score and both pools as
\* they were.
C3_PausedStateFrozen ==
  [][ (isPaused /\ isPaused') =>
        UNCHANGED << targetSteer, currentDriveState, isTwoHandMode, speed, carX,
                     health, score, obstaclePool, coinPool >> ]_vars

\* C4: in every reachable state at most MAX_OBSTACLES obstacle slots and at most
\* MAX_COINS coin slots are active.
C4_PoolBound ==
  /\ ActiveCount(obstaclePool) <= MAX_OBSTACLES
  /\ ActiveCount(coinPool) <= MAX_COINS
\* both pools are full and a spawn found no free slot
C4_Witness ==
  /\ last.skips > 0
  /\ ActiveCount(obstaclePool) = MAX_OBSTACLES
  /\ ActiveCount(coinPool) = MAX_COINS

\* C5: whenever gameState is RUNNING health is above 0; a step that brings health
\* to 0 ends in GAME_OVER; and RUNNING is entered only by a race start-up, with
\* full health.
C5_HealthTerminal ==
  /\ [](gameState = "RUNNING" => health > 0)
  /\ [][ /\ (health > 0 /\ health' <= 0) => gameState' = "GAME_OVER"
         /\ (gameState # "RUNNING" /\ gameState' = "RUNNING") =>
              /\ last'.op \in { "submitName", "preloadLoaded", "preloadFailed",
                                "cameraGranted" }
              /\ health' = 100 * HealthUnit ]_vars
\* a race started again after one that ended by a fatal crash
C5_Witness ==
  /\ gameState = "RUNNING"
  /\ last.op = "submitName"
  /\ health = 100 * HealthUnit
  /\ Len(leaderboard) > 0

\* C6: an obstacle that is active when a tick begins and lies in the hit window
\* (|z| < 2.5, |x - carX| < width) after its move is inactive when the tick ends
\* and was the cause of exactly one crash() call; a slot that is inactive and not
\* spawned into causes none.
C6_HitCrashesOnce ==
  [][ (last'.op = "frame" /\ last'.simTicks > 0) =>
        \A i \in 1..MAX_OBSTACLES :
          LET o == obstaclePool'[i]
              inWindow == /\ Abs(o.z) < (5 * ZUnit) \div 2
                          /\ Abs(o.x - carX') < (IF o.width = 0 THEN 2 * XUnit ELSE o.width)
              crashes == Cardinality({ k \in 1..Len(last'.hits) : last'.hits[k] = i })
          IN /\ (obstaclePool[i].active /\ inWindow) => (~o.active /\ crashes = 1)
             /\ (~obstaclePool[i].active /\ last'.spawns = 0) => crashes = 0 ]_vars
\* a wall two units off the car's line was hit, beyond the reach of a rock
C6_Witness ==
  /\ last.op = "frame"
  /\ gameState = "RUNNING"
  /\ last.crashes = 1
  /\ \E i \in 1..MAX_OBSTACLES :
       /\ last.hits = << i >>
       /\ ~obstaclePool[i].active
       /\ obstaclePool[i].type = "WALL"
       /\ Abs(obstaclePool[i].x - carX) >= KindWidth("ROCK")

\* C7: when the camera is denied, or the detector fails to load while a start-up
\* awaits it, the handler leaves gameState other than RUNNING, shows the error
\* message and requests no animate and no predictWebcam callback.
C7_StartupFailureIsTerminal ==
  (last.op = "cameraDenied" \/ (last.op = "preloadFailed" /\ last.awaited)) =>
    /\ gameState # "RUNNING"
    /\ loadingMessage = "ERROR"
    /\ last.animArmed = 0
    /\ last.cvArmed = 0

\* C8: a poll that delivered a hand of fewer than 21 points threw nothing, re-armed
\* predictWebcam and left the control signal as a poll without hands leaves it.
C8_ShortHandRejected ==
  (last.cvGate = "processed"
     /\ \E k \in 1..Len(last.hands) : last.hands[k].n < HAND_POINTS) =>
    /\ ~last.threw
    /\ last.cvArmed = 1
    /\ << targetSteer, currentDriveState, isTwoHandMode, virtualSteerAngle >>
         = << Trunc(last.ctl[1] * 7, 10), "NEUTRAL", FALSE, last.ctl[4] >>

\* C9: a predictWebcam cycle that ended without a result (not running, throttled,
\* no detector or webcam, no landmarks) left targetSteer, currentDriveState,
\* isTwoHandMode and virtualSteerAngle as it found them.
C9_LastKnownGood ==
  (last.cvCalls = 1
     /\ last.cvGate \in { "notRunning", "throttled", "noDetector", "noResult" }) =>
    << targetSteer, currentDriveState, isTwoHandMode, virtualSteerAngle >> = last.ctl
\* a cycle without landmarks kept a steering input and the drive state of a poll
C9_Witness ==
  /\ last.cvCalls = 1
  /\ last.cvGate = "noResult"
  /\ targetSteer # 0
  /\ currentDriveState = "GAS"
  /\ << targetSteer, currentDriveState, isTwoHandMode, virtualSteerAngle >> = last.ctl

\* C10: every predictWebcam invocation made while RUNNING and not paused requested
\* exactly one predictWebcam callback, which is pending.
C10_PerceptionRearms ==
  (last.cvCalls = 1 /\ gameState = "RUNNING" /\ ~isPaused) =>
    last.cvArmed = 1 /\ cvQueue = 1

\* C11: a detectForVideo call is made only when at least CV_THROTTLE_MS of
\* clock time has passed since the previous detectForVideo call; an invocation
\* of predictWebcam that arrives sooner makes no call.
C11_PollsThrottled ==
  last.pollGap # -1 => last.pollGap * 1000 >= CV_THROTTLE_MS * TimeUnit

\* A second poll of a race has been made, a throttle interval after the first.
C11_Witness ==
  /\ last.cvGate = "processed"
  /\ polls = MaxPolls
  /\ last.pollGap >= ThrottleDt

\* C12: invoking pause on a race that is already paused changes nothing:
\* isPaused, the clock's running flag and the pending callbacks are as the
\* first invocation left them.
C12_PauseIdempotent ==
  [][(isPaused /\ last'.op = "togglePause")
       => /\ isPaused'
          /\ clockRunning' = clockRunning
          /\ animQueue' = animQueue
          /\ cvQueue' = cvQueue]_vars

\* C13: the simulation tick that follows a resume reads a dt no longer than
\* the time that passed since the resume, however long the pause was; and the
\* tick run by a race start reads dt = 0, whatever time passed before
\* resetGame.
C13_DtNotChargedPause ==
  /\ (last.op = "frame" /\ last.simTicks > 0 /\ last.pausedFor >= 0)
       => last.dt <= last.elapsed
  /\ (last.op # "frame" /\ last.simTicks > 0) => last.dt = 0

\* A tick has run in the frame after a resume that ended a pause of positive
\* duration.
C13_Witness ==
  /\ last.op = "frame"
  /\ last.simTicks > 0
  /\ last.pausedFor > 0
  /\ last.dt = last.elapsed

\* C14: at the end of every tick no active obstacle lies beyond z = 50 and no
\* active coin beyond z = 20: an entity carried past its threshold is made
\* inactive in that same tick, hit or not, and its slot is free for a spawn.
C14_RecycledPastThreshold ==
  /\ \A i \in DOMAIN obstaclePool :
       obstaclePool[i].active => obstaclePool[i].z <= 50 * ZUnit
  /\ \A i \in DOMAIN coinPool :
       coinPool[i].active => coinPool[i].z <= 20 * ZUnit

\* A tick has carried a coin past z = 20, an obstacle has been carried past
\* z = 50, and both slots are free.
C14_Witness ==
  /\ last.simTicks > 0
  /\ \E i \in DOMAIN coinPool :
       coinPool[i].z > 20 * ZUnit /\ ~coinPool[i].active
  /\ \E i \in DOMAIN obstaclePool :
       /\ obstaclePool[i].z > 50 * ZUnit
       /\ ~obstaclePool[i].active
       /\ FirstFree(obstaclePool) \in 1..i

\* C15: a spawnObstacleFromPool call that finds every slot active leaves both
\* pools exactly as they were; a spawnCoinPattern call writes free slots only,
\* and with fewer than 5 of them free it activates those and no more.
C15_ExhaustedSpawnSkipped ==
  last.pools # NoPools =>
    LET p == last.pools
    IN /\ last.skips > 0 => p.mid = p.before
       /\ p.after.obstacles = p.mid.obstacles
       /\ \A i \in DOMAIN p.mid.coins :
            p.mid.coins[i].active => p.after.coins[i] = p.mid.coins[i]
       /\ ActiveCount(p.after.coins) =
            IF last.coinPattern
            THEN Min(Len(p.mid.coins), ActiveCount(p.mid.coins) + 5)
            ELSE ActiveCount(p.mid.coins)

\* A tick has attempted an obstacle spawn with no slot free, and a coin pattern
\* with fewer than 5 coin slots free.
C15_Witness ==
  /\ last.skips > 0
  /\ last.coinPattern
  /\ FirstFree(last.pools.before.obstacles) = 0
  /\ Len(last.pools.mid.coins) - ActiveCount(last.pools.mid.coins) \in 1..4

\* C16: when spawnObstacleFromPool activates a TRAFFIC obstacle, no other
\* active TRAFFIC obstacle lies within 30 road units of its spawn z.
C16_TrafficGap ==
  last.pools # NoPools =>
    LET was == last.pools.before.obstacles
        now == last.pools.mid.obstacles
    IN \A k \in DOMAIN now :
         (now[k] # was[k] /\ now[k].type = "TRAFFIC")
           => \A j \in DOMAIN was :
                (j # k /\ was[j].active /\ was[j].type = "TRAFFIC")
                  => Abs(was[j].z - now[k].z) >= 30 * ZUnit

\* C17: in every reachable state targetSteer and currentSteer lie in [-1, 1],
\* whatever the raw steer of the hand observations, through ticks, crashes and
\* race restarts.
C17_SteerInRange ==
  /\ Abs(targetSteer) <= SteerUnit
  /\ Abs(currentSteer) <= SteerUnit

\* A hand whose raw steer lies beyond full lock has been processed twice, and
\* a tick has moved currentSteer after it.
C17_Witness ==
  /\ last.cvGate = "processed"
  /\ last.hands = << OpenLeft >>
  /\ 2 * Abs(targetSteer) > SteerUnit
  /\ currentSteer # 0

\* C18: in every reachable state the car's lateral position is within the
\* track half-width: |carX| <= SIDE_BARRIER_X.
C18_CarXClamped == Abs(carX) <= SIDE_BARRIER_X * XUnit

\* C19: during a race the control signal (targetSteer, driveState, twoHandMode,
\* virtualWheelAngle) is written by processHands alone, and processHands
\* writes neither the vehicle state nor the pools: a frame in which
\* processHands did not run leaves the control signal as it was, and a frame
\* in which no tick ran leaves speed, carX, currentSteer, health and the pools
\* as they were.
C19_SingleWriter ==
  [][(gameState = "RUNNING" /\ last'.op = "frame")
       => /\ last'.cvGate # "processed"
               => << targetSteer, currentDriveState, isTwoHandMode,
                     virtualSteerAngle >>' =
                  << targetSteer, currentDriveState, isTwoHandMode,
                     virtualSteerAngle >>
          /\ last'.simTicks = 0
               => UNCHANGED << speed, carX, currentSteer, health, obstaclePool,
                               coinPool >>]_vars

\* C20 (as stated): right after race start and at every tick boundary of a
\* race, difficultyLevel is floor(1 + floor(score / 2000) * 0.2) + 1 of the
\* current score, i.e. difficultyLevel - 1 <= 1 + floor(score / 2000) / 5
\* < difficultyLevel.
C20_LevelOfCurrentScore ==
  gameState = "RUNNING" =>
    /\ 5 * (difficultyLevel - 1) <= 5 + score \div DIFFICULTY_STEP
    /\ 5 + score \div DIFFICULTY_STEP < 5 * difficultyLevel

\* C20 (amended): difficultyLevel is written from the score alone, one tick
\* behind: a tick of a running race leaves difficultyLevel at
\* floor(1 + floor(score / 2000) * 0.2) + 1 of the score the tick found (the
\* score before it added the distance covered), the tick run by a race start
\* leaves it at the level of score 0, and a handler that runs no tick leaves
\* it unchanged.
C20_LevelOfScoreFound ==
  [][LET found == IF last'.op = "frame" THEN score ELSE 0
     IN /\ last'.simTicks > 0
             => /\ 5 * (difficultyLevel' - 1) <= 5 + found \div DIFFICULTY_STEP
                /\ 5 + found \div DIFFICULTY_STEP < 5 * difficultyLevel'
        /\ last'.simTicks = 0 => difficultyLevel' = difficultyLevel]_vars

\* A tick of a running race has carried the score over the first step of
\* difficultyLevel, which is still that of the score the tick found.
C20_Witness ==
  /\ gameState = "RUNNING"
  /\ last.op = "frame"
  /\ last.simTicks > 0
  /\ score >= 5 * DIFFICULTY_STEP
  /\ difficultyLevel = DifficultyLevelOf(5 * DIFFICULTY_STEP - 1)

\* C21: difficultyLevel is an integer >= 1, and a handler leaves it lower than
\* it found it only if it started a race (resetGame ran).
C21_LevelMonotonic ==
  /\ difficultyLevel \in Nat
  /\ difficultyLevel >= 1
  /\ difficultyLevel < last.was.level => last.resets > 0

\* A race that had reached the third level has been followed by a race start,
\* which brought difficultyLevel down.
C21_Witness ==
  /\ last.was.level = DifficultyLevelOf(5 * DIFFICULTY_STEP)
  /\ last.resets = 1
  /\ difficultyLevel < last.was.level

\* C22: a handler that starts no race never lowers the score; it raises it only
\* in a simulation tick, and then by floor(speed * 40 * dt / 2) of the speed
\* the tick moved the car with (so by nothing at speed 0); crash, pause and
\* menu transitions leave it alone.
C22_ScoreByDistance ==
  last.resets = 0 =>
    LET gain == score - last.was.score
        unit == 2 * (SpeedUnit \div 40) * TimeUnit
    IN /\ gain >= 0
       /\ last.simTicks = 0 => gain = 0
       /\ last.simTicks > 0 =>
            /\ gain * unit <= last.tickSpeed * last.dt
            /\ last.tickSpeed * last.dt < (gain + 1) * unit

\* A tick has crashed the car for good and still added the distance it covered
\* to the score.
C22_Witness ==
  /\ last.resets = 0
  /\ last.finals > 0
  /\ gameState = "GAME_OVER"
  /\ score > last.was.score

\* C23 (as stated): between two consecutive one-hand observations whose
\* openness lies near the same threshold (within 0.02 of 0.25, or of 0.35),
\* driveState does not change.
C23_NoFlipNearThreshold ==
  [][LET one == /\ last.cvGate = "processed"
                /\ ~last.threw
                /\ Len(last.hands) = 1
         open == TipDistances(last.hands[1])
         near(th) == 4 * (th - 20) <= open /\ open <= 4 * (th + 20)
     IN (one /\ one' /\ ((near(250) /\ near(250)') \/ (near(350) /\ near(350)')))
          => currentDriveState' = currentDriveState]_vars

\* C23 (amended): driveState has no memory of the previous observation:
\* between two consecutive one-hand observations it changes exactly when the
\* openness has crossed the closed threshold (0.25) or the open threshold
\* (0.35); observations that stay inside the band keep NEUTRAL, and nothing
\* short of crossing the whole band turns BRAKING into GAS.
C23_ChangesOnCrossing ==
  [][LET one == /\ last.cvGate = "processed"
                /\ ~last.threw
                /\ Len(last.hands) = 1
         open == TipDistances(last.hands[1])
         closed == open < 4 * 250
         wide == open > 4 * 350
     IN (one /\ one')
          => /\ (currentDriveState' # currentDriveState)
                  <=> (closed' # closed \/ wide' # wide)
             /\ (~closed' /\ ~wide') => currentDriveState' = "NEUTRAL"]_vars

\* A fist seen just inside the band has followed a fist seen just below the
\* closed threshold: BRAKING has given way to NEUTRAL.
C23_Witness ==
  /\ last.cvGate = "processed"
  /\ last.hands = << OneHand(-29, 260) >>
  /\ last.ctl[2] = "BRAKING"
  /\ currentDriveState = "NEUTRAL"

\* C24: a one-hand observation whose middle knuckle lies less than 0.03 to
\* the side of the wrist contributes no steering: whatever the control signal
\* was before, the new targetSteer is the old one times 0.7 and nothing else.
C24_DeadZone ==
  (/\ last.cvGate = "processed"
   /\ ~last.threw
   /\ Len(last.hands) = 1
   /\ Abs(last.hands[1].knuckle[1] - last.hands[1].wrist[1]) < 30)
    => targetSteer = Trunc(last.ctl[1] * 7, 10)

\* A hand held 0.029 to the side of the wrist has been observed while the
\* wheel was turned.
C24_Witness ==
  /\ last.cvGate = "processed"
  /\ last.hands = << OneHand(29, 240) >>
  /\ last.ctl[1] < 0
  /\ targetSteer = Trunc(last.ctl[1] * 7, 10)

\* C25 (as stated): after a two-hand observation the steering is what the
\* same two hands reported in the other slot order would have given, for any
\* two hands.
C25_SlotOrderFree ==
  (/\ last.cvGate = "processed" /\ ~last.threw /\ Len(last.hands) = 2)
    => LET k1 == last.hands[1].knuckle
           k2 == last.hands[2].knuckle
           other == TwoHandAngle(k2, k1)
           raw == Max(-SteerUnit, Min(SteerUnit, other * (-3)))
       IN /\ virtualSteerAngle = Trunc(other * 57296, 1000)
          /\ targetSteer = Trunc(last.ctl[1] * 7 + PowerCurve(raw) * 3, 10)

\* C25 (amended): with the left hand lower on screen than the right the
\* angle is negative (a raw steer above 0), exchanging the two y values gives
\* the opposite angle of the same size, and two hands at different x give
\* the same steering in either slot order.
C25_AngleSign ==
  (/\ last.cvGate = "processed" /\ ~last.threw /\ Len(last.hands) = 2)
    => LET k1 == last.hands[1].knuckle
           k2 == last.hands[2].knuckle
           left == IF k1[1] < k2[1] THEN k1 ELSE k2
           right == IF k1[1] < k2[1] THEN k2 ELSE k1
           angle == TwoHandAngle(k1, k2)
           other == TwoHandAngle(k2, k1)
           swapped == TwoHandAngle(<< k1[1], k2[2] >>, << k2[1], k1[2] >>)
           raw == Max(-SteerUnit, Min(SteerUnit, other * (-3)))
       IN /\ virtualSteerAngle = Trunc(angle * 57296, 1000)
          /\ left[2] > right[2] => (angle < 0 /\ angle * (-3) > 0)
          /\ left[2] < right[2] => (angle > 0 /\ angle * (-3) < 0)
          /\ swapped = -angle
          /\ k1[1] # k2[1]
               => /\ other = angle
                  /\ targetSteer = Trunc(last.ctl[1] * 7 + PowerCurve(raw) * 3, 10)

\* The right hand came first in the detector's answer, and it is the higher
\* one: the wheel shows a left turn.
C25_Witness ==
  /\ last.cvGate = "processed"
  /\ last.hands = << WheelRight, WheelLeft >>
  /\ virtualSteerAngle < 0
  /\ targetSteer > last.ctl[1]

C27_Accelerates ==
  [][(/\ last'.simTicks > 0
      /\ currentDriveState = "GAS"
      /\ last'.dt = FrameDt
      /\ Abs(carX') <= SIDE_BARRIER_X * XUnit - (3 * XUnit) \div 2)
       => /\ speed' > speed
          /\ speed' <= MaxSpeed(Difficulty5(score))
          /\ speed' * 1000 <= 5775 * SpeedUnit]_vars

\* The second of GAS is over: sixty ticks have brought the car from rest to a
\* speed of 0.2.
C27_Witness ==
  /\ ticks = 60
  /\ currentDriveState = "GAS"
  /\ last.simTicks > 0
  /\ last.dt = FrameDt
  /\ speed * 5 = SpeedUnit

\* C28: from speed 2.0, under BRAKING held, every tick takes 12 * dt off the
\* speed and stops at 0: speed is never negative, it is 0 after the ten ticks
\* of 1/60 s that 2.0 lasts, and it is 0 after every later tick.
C28_BrakeToStop ==
  currentDriveState = "BRAKING"
    => /\ speed >= 0
       /\ speed = Max(0, 2 * SpeedUnit - ticks * SpeedDelta(1200, FrameDt))
       /\ ticks >= 10 => speed = 0
       /\ (last.simTicks > 0 /\ last.was.speed = 0) => speed = 0

\* The car stands, BRAKING is still held, and a tick has found it standing.
C28_Witness ==
  /\ currentDriveState = "BRAKING"
  /\ ticks > 10
  /\ last.simTicks > 0
  /\ last.was.speed = 0
  /\ speed = 0

C30_LeaderboardKeepsBest ==
  Len(last.posted) = 1
    => LET old == last.was.board
           finalScore == last.posted[1]
           new == leaderboard
           Count(seq, v) == Cardinality({ i \in DOMAIN seq : seq[i] = v })
           Had(v) == Count(old, v) + (IF v = finalScore THEN 1 ELSE 0)
           Scores == { old[i] : i \in DOMAIN old } \cup { finalScore }
       IN /\ \A i \in 1..(Len(new) - 1) : new[i] >= new[i + 1]
          /\ Len(new) <= MAX_LEADERBOARD_ENTRIES
          /\ finalScore = 0 => new = old
          /\ finalScore # 0
               => /\ Len(new) = Min(Len(old) + 1, MAX_LEADERBOARD_ENTRIES)
                  /\ \A i \in DOMAIN new : new[i] \in Scores
                  /\ \A v \in Scores :
                       /\ Count(new, v) <= Had(v)
                       /\ Count(new, v) < Had(v)
                            => \A i \in DOMAIN new : new[i] >= v

\* A full leaderboard has taken a final score above its lowest entry, and the
\* lowest entry has gone.
C30_Witness ==
  /\ last.op = "updateLeaderboard"
  /\ Len(last.posted) = 1
  /\ Len(last.was.board) = MAX_LEADERBOARD_ENTRIES
  /\ last.posted[1] > last.was.board[MAX_LEADERBOARD_ENTRIES]
  /\ Len(leaderboard) = MAX_LEADERBOARD_ENTRIES
  /\ leaderboard[MAX_LEADERBOARD_ENTRIES] > last.was.board[MAX_LEADERBOARD_ENTRIES]

\* C31: of a GET request to the origin or to a listed domain: an answer from
\* the cache has cost no fetch; a request that the network has delivered
\* once before is answered from the cache; a failed fetch is answered with
\* status 408 and leaves the cache as it was.
C31_OfflineContract ==
  (worker.answer # NoAnswer /\ Handled(worker.answer.req))
    => LET a == worker.answer
       IN /\ a.source = "cache" => a.fetches = 0
          /\ a.known => a.source = "cache"
          /\ a.source = "fallback"
               => (a.status = 408 /\ worker.cache = a.before)

\* C32: no handler runs the finalization of a fatal crash (GAME_OVER,
\* updateLeaderboard) more than once: a race ends once, posts one score and
\* adds at most one entry to the leaderboard.
C32_FinalizedOnce ==
  /\ last.finals <= 1
  /\ Len(last.posted) <= 1
  /\ Len(leaderboard) <= Len(last.was.board) + 1

\* C33: when a resume has ended a pause and the race is RUNNING, the
\* simulation is set to go on: a callback that runs animate is pending.
C33_ResumeRearms ==
  (last.op = "togglePause" /\ ~isPaused /\ gameState = "RUNNING" /\ ~destroyed)
    => animQueue > 0

\* C34: at most one callback that runs animate and at most one that runs
\* predictWebcam is pending in any reachable state, and no handler requests
\* more than one of either.
C34_LoopsNotDuplicated ==
  /\ animQueue <= 1
  /\ cvQueue <= 1
  /\ last.animArmed <= 1
  /\ last.cvArmed <= 1

\* The garage was entered in the middle of a race, with both callbacks
\* pending: the two were cancelled, and animate alone is pending again.
C34_Witness ==
  /\ last.op = "enterShop"
  /\ last.cancelled = 2
  /\ gameState = "SHOP"
  /\ animQueue = 1
  /\ cvQueue = 0

\* C35: a step that begins in GAME_OVER and does not start a race leaves
\* score, health, speed, carX and both pools as they were, and a handler that
\* has ended the race has posted to the leaderboard the score it leaves.
C35_FrozenAfterGameOver ==
  [][/\ (gameState = "GAME_OVER" /\ last'.resets = 0)
          => UNCHANGED << score, health, speed, carX, obstaclePool, coinPool >>
     /\ (last'.finals > 0 /\ Len(last'.posted) > 0)
          => \A k \in 1..Len(last'.posted) : last'.posted[k] = score']_vars

\* C36: when the promise a start-up was awaiting settles after the component
\* has left LOADING or has been destroyed, the continuation does nothing to
\* the game: gameState stays, resetGame does not run, no callback is armed.
C36_StaleStartupInert ==
  [][(last'.awaited /\ (gameState # "LOADING" \/ destroyed))
       => /\ gameState' = gameState
          /\ last'.resets = 0
          /\ last'.animArmed = 0
          /\ last'.cvArmed = 0
          /\ animQueue' = animQueue
          /\ cvQueue' = cvQueue]_vars

\* C37: a handler that has run resetGame and has interpreted no hand
\* observation since leaves the control signal neutral: targetSteer = 0,
\* currentSteer = 0 and currentDriveState = NEUTRAL.
C37_NeutralAtStart ==
  (last.resets > 0 /\ last.cvGate # "processed")
    => /\ targetSteer = 0
       /\ currentSteer = 0
       /\ currentDriveState = "NEUTRAL"

\* C38: an active obstacle that a tick carries from ahead of the car
\* (z < -2.5) to behind it (z > 2.5), and that is within the car's lateral hit
\* distance before and after the tick, has crashed into the car in that tick.
C38_NoTunnelling ==
  [][\A i \in DOMAIN obstaclePool :
       LET o == obstaclePool[i]
           hitDistX == IF o.width = 0 THEN 2 * XUnit ELSE o.width
       IN (/\ last'.simTicks > 0
           /\ last'.resets = 0
           /\ last'.spawns = 0
           /\ o.active
           /\ 2 * o.z < (-5) * ZUnit
           /\ 2 * obstaclePool'[i].z > 5 * ZUnit
           /\ Abs(o.x - carX) < hitDistX
           /\ Abs(obstaclePool'[i].x - carX') < hitDistX)
            => \E k \in 1..Len(last'.hits) : last'.hits[k] = i]_vars

\* C39: a tick without an obstacle hit that ends with |carX| beyond
\* SIDE_BARRIER_X - 1.5 takes 60 * dt off health, stopping at 0, and leaves
\* 0.95 of the speed it drove at; when dt > 0 health has gone down, and when
\* it has reached 0 the race is over by a fatal crash. A tick that ends
\* inside the limit leaves health as it was.
C39_BarrierDrain ==
  [][(last'.simTicks > 0 /\ last'.resets = 0 /\ last'.hits = << >>)
       => LET dt == last'.dt
              barrierLimit == SIDE_BARRIER_X * XUnit - (3 * XUnit) \div 2
              driven == DriveSpeed(speed, currentDriveState, dt,
                                   MaxSpeed(Difficulty5(score)))
              damped == (driven * 19) \div 20
          IN IF Abs(carX') > barrierLimit
             THEN /\ health' = Max(0, health - (60 * HealthUnit * dt) \div TimeUnit)
                  /\ dt > 0 => health' < health
                  /\ health' > 0 => (speed' = damped /\ last'.crashes = 0)
                  /\ health' = 0
                       => /\ gameState' = "GAME_OVER"
                          /\ last'.finals = 1
                          /\ speed' = damped \div 5
             ELSE /\ health' = health
                  /\ speed' = driven
                  /\ last'.crashes = 0]_vars

\* The barrier has drained the last of the health over ticks of 1/60 s, and
\* the race has ended.
C39_Witness ==
  /\ last.simTicks > 0
  /\ last.dt = FrameDt
  /\ ticks = 2
  /\ Abs(carX) > SIDE_BARRIER_X * XUnit - (3 * XUnit) \div 2
  /\ health = 0
  /\ last.finals = 1
  /\ gameState = "GAME_OVER"

\* C40: a tick of dt > 0 through which the car holds one positive speed adds
\* to the score, whatever the size of the tick (ticks of one size at one
\* speed all add the same amount, so a tick that adds nothing stands for a
\* run of such ticks over which the score never moves).
C40_ScoreAdvances ==
  [][(/\ last'.simTicks > 0
      /\ last'.resets = 0
      /\ last'.dt > 0
      /\ speed > 0
      /\ last'.tickSpeed = speed
      /\ speed' = speed
      /\ gameState' = "RUNNING")
       => score' > score]_vars

====
